---- MODULE Spec2Model ----
(***************************************************************************)
(* Model of texar/data/vocabulary.py: the Vocab class, which loads a       *)
(* vocabulary file, prepends the four special tokens and keeps two         *)
(* defaultdict tables, id -> token and token -> id.                        *)
(*                                                                         *)
(* A Python str is a sequence of glyphs (each glyph a one-element TLA+     *)
(* string), so that str.strip() is computed and not assumed.  A possibly   *)
(* nested list / array handed to a lookup is a tree: Leaf(x) is a scalar,  *)
(* List(s) a list whose elements are the trees of the sequence s.          *)
(***************************************************************************)
EXTENDS Integers, Sequences, FiniteSets, TLC

VARIABLES
    phase,                \* "unbuilt" | "built" (Vocab.__init__ returned) | "failed" (it raised)
    vocab_file,           \* the lines of the file `filename` names, as read
    _pad_token,           \* self._pad_token
    _bos_token,           \* self._bos_token
    _eos_token,           \* self._eos_token
    _unk_token,           \* self._unk_token
    _id_to_token_map_py,  \* self._id_to_token_map_py
    _token_to_id_map_py,  \* self._token_to_id_map_py
    call,                 \* the lookup a caller is about to make (NoCall when none is fixed)
    op,                   \* the last operation that ran
    arg,                  \* its argument
    ret                   \* what it returned ([value |-> v]) or raised ([raised |-> message])

vars == <<phase, vocab_file, _pad_token, _bos_token, _eos_token, _unk_token,
          _id_to_token_map_py, _token_to_id_map_py, call, op, arg, ret>>

-----------------------------------------------------------------------------
(* Bounds of the model. *)

\* The longest vocabulary file, in lines.
MaxLines == 2

\* The largest nested lookup argument, in nodes (scalars and lists).
MaxNodes == 6

-----------------------------------------------------------------------------
(* Strings. *)

PAD == <<"<PAD>">>
BOS == <<"<BOS>">>
EOS == <<"<EOS>">>
UNK == <<"<UNK>">>

\* The glyphs str.strip() removes.
Whitespace == {" ", "\n"}

RECURSIVE lstrip(_)
lstrip(s) ==
    IF s # <<>> /\ Head(s) \in Whitespace THEN lstrip(Tail(s)) ELSE s

RECURSIVE rstrip(_)
rstrip(s) ==
    IF s # <<>> /\ s[Len(s)] \in Whitespace
    THEN rstrip(SubSeq(s, 1, Len(s) - 1))
    ELSE s

strip(s) == rstrip(lstrip(s))

-----------------------------------------------------------------------------
(* Values: what a call returns or raises, and the trees lookups work on. *)

Return(v) == [value |-> v]
Raise(message) == [raised |-> message]
None == "None"
NoArg == <<>>
Unset == "unset"

Leaf(x) == [leaf |-> x]
List(s) == [items |-> s]
IsLeaf(t) == DOMAIN t = {"leaf"}

-----------------------------------------------------------------------------
(* collections.defaultdict, as _make_defaultdict builds it. *)

Min(a, b) == IF a <= b THEN a ELSE b

\* dict_[k] = v for every pair of zip(keys, values): the first assignment of a key
\* would win here, where Python's last one does.
_make_defaultdict_first_wins(keys, values, default_value) ==
    LET n == Min(Len(keys), Len(values))
        first(k) == CHOOSE i \in 1..n :
                        keys[i] = k /\ \A j \in 1..(i - 1) : keys[j] # k
    IN  [entries |-> [k \in {keys[i] : i \in 1..n} |-> values[first(k)]],
         default |-> default_value]

_make_defaultdict(keys, values, default_value) ==
    LET n == Min(Len(keys), Len(values))
        last(k) == CHOOSE i \in 1..n :
                       keys[i] = k /\ \A j \in (i + 1)..n : keys[j] # k
    IN  [entries |-> [k \in {keys[i] : i \in 1..n} |-> values[last(k)]],
         default |-> default_value]

\* dict_[key] of a defaultdict: a missing key is inserted with the default.
defaultdict_getitem(dict_, key) ==
    IF key \in DOMAIN dict_.entries
    THEN [value |-> dict_.entries[key], dict |-> dict_]
    ELSE [value |-> dict_.default,
          dict  |-> [dict_ EXCEPT !.entries =
                        [k \in (DOMAIN dict_.entries) \cup {key} |->
                            IF k = key THEN dict_.default ELSE dict_.entries[k]]]]

\* len(dict_)
len(dict_) == Cardinality(DOMAIN dict_.entries)

-----------------------------------------------------------------------------
(* Vocab.load *)

\* vocab = list(line.strip() for line in vocab_file)
read_vocab(lines) == [i \in 1..Len(lines) |-> strip(lines[i])]

\* token in vocab
In(token, vocab) == \E i \in 1..Len(vocab) : vocab[i] = token

NoError == "no error"

\* The four checks without the last one, that of the padding token.
special_token_error_pad_unchecked(pad_token, bos_token, eos_token, unk_token, vocab) ==
    IF In(bos_token, vocab)
    THEN "Special begin-of-seq token already exists in the vocabulary"
    ELSE IF In(eos_token, vocab)
    THEN "Special end-of-seq token already exists in the vocabulary"
    ELSE IF In(unk_token, vocab)
    THEN "Special UNK token already exists in the vocabulary"
    ELSE NoError

\* The four "if self._x_token in vocab: raise ValueError(...)" checks, in the
\* code's order: the message of the first that fires, or NoError.
special_token_error(pad_token, bos_token, eos_token, unk_token, vocab) ==
    IF In(bos_token, vocab)
    THEN "Special begin-of-seq token already exists in the vocabulary"
    ELSE IF In(eos_token, vocab)
    THEN "Special end-of-seq token already exists in the vocabulary"
    ELSE IF In(unk_token, vocab)
    THEN "Special UNK token already exists in the vocabulary"
    ELSE IF In(pad_token, vocab)
    THEN "Special padding token already exists in the vocabulary"
    ELSE NoError

\* The unknown token put after the loaded lines instead of at index 3.
with_special_tokens_unk_last(pad_token, bos_token, eos_token, unk_token, vocab) ==
    <<pad_token, bos_token, eos_token>> \o vocab \o <<unk_token>>

\* vocab = [self._pad_token, self._bos_token, self._eos_token,
\*          self._unk_token] + vocab
with_special_tokens(pad_token, bos_token, eos_token, unk_token, vocab) ==
    <<pad_token, bos_token, eos_token, unk_token>> \o vocab

unk_token_idx == 3

\* The ids counted from 1 instead of 0.
arange_from_one(n) == [i \in 1..n |-> i]

\* np.arange(n): 0, 1, ..., n - 1
arange(n) == [i \in 1..n |-> i - 1]

\* What load returns ([value |-> <<id_to_token_map_py, token_to_id_map_py>>]) or
\* raises, for the lines of the file and the special tokens of self.
load(lines, pad_token, bos_token, eos_token, unk_token) ==
    LET vocab == read_vocab(lines)
        error == special_token_error(pad_token, bos_token, eos_token, unk_token, vocab)
        full  == with_special_tokens(pad_token, bos_token, eos_token, unk_token, vocab)
        vocab_size == Len(full)
        vocab_idx  == arange(vocab_size)
        id_to_token_map_py == _make_defaultdict(vocab_idx, full, unk_token)
        token_to_id_map_py == _make_defaultdict(full, vocab_idx, unk_token_idx)
    IN  IF error # NoError
        THEN Raise(error)
        ELSE Return(<<id_to_token_map_py, token_to_id_map_py>>)

-----------------------------------------------------------------------------
(* texar.utils.utils.dict_lookup *)

\* dict_.get(key, default): the value of a present key, else default; dict_ is
\* left as it is.
get(dict_, key, default) ==
    IF key \in DOMAIN dict_.entries THEN dict_.entries[key] ELSE default

\* The tree keys with every leaf looked up in dict_, default standing in for
\* the leaves that are no key of it.
RECURSIVE dict_lookup(_, _, _)
dict_lookup(dict_, keys, default) ==
    IF IsLeaf(keys)
    THEN Leaf(get(dict_, keys.leaf, default))
    ELSE List([i \in 1..Len(keys.items) |->
                  dict_lookup(dict_, keys.items[i], default)])

-----------------------------------------------------------------------------
(* The properties and lookups of a built Vocab.  A property that indexes a   *)
(* defaultdict yields [value |-> the value read, dict |-> the defaultdict    *)
(* after the read].                                                          *)

id_to_token_map_py == _id_to_token_map_py
token_to_id_map_py == _token_to_id_map_py

size == len(token_to_id_map_py)

bos_token == _bos_token
eos_token == _eos_token
unk_token == _unk_token
pad_token == _pad_token

bos_token_id == defaultdict_getitem(token_to_id_map_py, _bos_token)
eos_token_id == defaultdict_getitem(token_to_id_map_py, _eos_token)
unk_token_id == defaultdict_getitem(token_to_id_map_py, _unk_token)
pad_token_id == defaultdict_getitem(token_to_id_map_py, _pad_token)

special_tokens == <<_pad_token, _bos_token, _eos_token, _unk_token>>

\* The padding token given as the fallback.
map_ids_to_tokens_py_pad_fallback(ids) ==
    dict_lookup(id_to_token_map_py, ids, pad_token)

\* ids wrapped in one more list before the lookup.
map_ids_to_tokens_py_wrapped(ids) ==
    dict_lookup(id_to_token_map_py, List(<<ids>>), unk_token)

\* return dict_lookup(self.id_to_token_map_py, ids, self.unk_token)
map_ids_to_tokens_py(ids) ==
    dict_lookup(id_to_token_map_py, ids, unk_token)

\* The padding id given as the fallback.
map_tokens_to_ids_py_pad_fallback(tokens) ==
    LET default == pad_token_id
    IN  [value |-> dict_lookup(default.dict, tokens, default.value),
         dict  |-> default.dict]

\* A scalar token read with token_to_id_map_py[token] instead of dict_lookup.
map_tokens_to_ids_py_indexed(tokens) ==
    LET default == unk_token_id
        read    == defaultdict_getitem(default.dict, tokens.leaf)
    IN  IF IsLeaf(tokens)
        THEN [value |-> Leaf(read.value), dict |-> read.dict]
        ELSE [value |-> dict_lookup(default.dict, tokens, default.value),
              dict  |-> default.dict]

\* return dict_lookup(self.token_to_id_map_py, tokens, self.unk_token_id)
\* [value |-> the tree returned, dict |-> token_to_id_map_py after the call]
map_tokens_to_ids_py(tokens) ==
    LET default == unk_token_id
    IN  [value |-> dict_lookup(default.dict, tokens, default.value),
         dict  |-> default.dict]

-----------------------------------------------------------------------------
(* The inputs the model draws. *)

\* The lines a vocabulary file is made of, as read (line end and blanks kept).
RawLines ==
    { <<"a", "\n">>, <<" ", "a", " ", "\n">>, <<"b", "\n">>, <<"\n">>,
      <<"<PAD>", "\n">>, <<"<BOS>", "\n">>, <<"<EOS>", "\n">>, <<"<UNK>">> }

FilesOf(lines) == UNION {[1..n -> lines] : n \in 0..MaxLines}

Files == FilesOf(RawLines)

\* The special tokens a caller configures: the default or the empty string.
PadChoices == {PAD, <<>>}
BosChoices == {BOS, <<>>}
EosChoices == {EOS, <<>>}
UnkChoices == {UNK, <<>>}

\* The scalars looked up: tokens and ids, present in some tables and absent
\* from others, and some present in none.
LookupTokens ==
    { <<"a">>, <<"b">>, <<>>, PAD, BOS, EOS, UNK, <<"z">>, <<" ", "a", " ">> }

LookupIds == (-1)..(unk_token_idx + MaxLines + 2)

\* The trees of exactly n nodes over the leaves, and the sequences of trees
\* of n nodes in all.
RECURSIVE TreesOfSize(_, _), ForestsOfSize(_, _)
TreesOfSize(leaves, n) ==
    (IF n = 1 THEN {Leaf(x) : x \in leaves} ELSE {})
        \cup {List(f) : f \in ForestsOfSize(leaves, n - 1)}

ForestsOfSize(leaves, n) ==
    IF n = 0
    THEN {<<>>}
    ELSE UNION { {<<t>> \o f : t \in TreesOfSize(leaves, j),
                               f \in ForestsOfSize(leaves, n - j)} : j \in 1..n }

Trees(leaves) == UNION {TreesOfSize(leaves, n) : n \in 1..MaxNodes}

NestedTokens == Trees({<<"a">>, <<"z">>})
NestedIds == Trees({unk_token_idx + 1, -1})

NestedFiles == FilesOf({<<"a", "\n">>})

NoCall == [fn |-> "none", input |-> NoArg]

NestedCalls ==
    {[fn |-> "map_tokens_to_ids_py", input |-> t] : t \in NestedTokens}
        \cup {[fn |-> "map_ids_to_tokens_py", input |-> t] : t \in NestedIds}

-----------------------------------------------------------------------------
(* The operations. *)

Init ==
    /\ phase = "unbuilt"
    /\ vocab_file = <<>>
    /\ _pad_token = Unset
    /\ _bos_token = Unset
    /\ _eos_token = Unset
    /\ _unk_token = Unset
    /\ _id_to_token_map_py = Unset
    /\ _token_to_id_map_py = Unset
    /\ call = NoCall
    /\ op = "none"
    /\ arg = NoArg
    /\ ret = Return(None)

\* Vocab.__init__: the four tokens are stored, then load builds the two maps
\* or raises, and then nothing of the maps is assigned.
Vocab__init__(lines, pad, bos, eos, unk) ==
    LET loaded == load(lines, pad, bos, eos, unk)
        ok     == "value" \in DOMAIN loaded
    IN  /\ phase = "unbuilt"
        /\ vocab_file' = lines
        /\ _pad_token' = pad
        /\ _bos_token' = bos
        /\ _eos_token' = eos
        /\ _unk_token' = unk
        /\ _id_to_token_map_py' = IF ok THEN loaded.value[1] ELSE Unset
        /\ _token_to_id_map_py' = IF ok THEN loaded.value[2] ELSE Unset
        /\ phase' = IF ok THEN "built" ELSE "failed"
        /\ op' = "__init__"
        /\ arg' = NoArg
        /\ ret' = IF ok THEN Return(None) ELSE loaded
        /\ UNCHANGED call

\* A call on the built object that reads token_to_id_map_py with [] or not at
\* all: name, argument, value returned, token_to_id_map_py after it.
Ran(name, argument, value, dict) ==
    /\ phase = "built"
    /\ op' = name
    /\ arg' = argument
    /\ ret' = Return(value)
    /\ _token_to_id_map_py' = dict
    /\ UNCHANGED <<phase, vocab_file, _pad_token, _bos_token, _eos_token,
                   _unk_token, _id_to_token_map_py>>

Construct ==
    \E lines \in Files, pad \in PadChoices, bos \in BosChoices,
       eos \in EosChoices, unk \in UnkChoices :
        Vocab__init__(lines, pad, bos, eos, unk)

MapTokensToIds ==
    \E token \in LookupTokens :
        LET r == map_tokens_to_ids_py(Leaf(token))
        IN  Ran("map_tokens_to_ids_py", Leaf(token), r.value, r.dict)
            /\ UNCHANGED call

MapIdsToTokens ==
    \E id \in LookupIds :
        Ran("map_ids_to_tokens_py", Leaf(id), map_ids_to_tokens_py(Leaf(id)),
            _token_to_id_map_py)
            /\ UNCHANGED call

ReadSize ==
    Ran("size", NoArg, size, _token_to_id_map_py) /\ UNCHANGED call

ReadBosToken ==
    Ran("bos_token", NoArg, bos_token, _token_to_id_map_py) /\ UNCHANGED call

ReadBosTokenId ==
    Ran("bos_token_id", NoArg, bos_token_id.value, bos_token_id.dict)
        /\ UNCHANGED call

ReadEosToken ==
    Ran("eos_token", NoArg, eos_token, _token_to_id_map_py) /\ UNCHANGED call

ReadEosTokenId ==
    Ran("eos_token_id", NoArg, eos_token_id.value, eos_token_id.dict)
        /\ UNCHANGED call

ReadUnkToken ==
    Ran("unk_token", NoArg, unk_token, _token_to_id_map_py) /\ UNCHANGED call

ReadUnkTokenId ==
    Ran("unk_token_id", NoArg, unk_token_id.value, unk_token_id.dict)
        /\ UNCHANGED call

ReadPadToken ==
    Ran("pad_token", NoArg, pad_token, _token_to_id_map_py) /\ UNCHANGED call

ReadPadTokenId ==
    Ran("pad_token_id", NoArg, pad_token_id.value, pad_token_id.dict)
        /\ UNCHANGED call

ReadSpecialTokens ==
    Ran("special_tokens", NoArg, special_tokens, _token_to_id_map_py)
        /\ UNCHANGED call

Next ==
    \/ Construct
    \/ MapTokensToIds
    \/ MapIdsToTokens
    \/ ReadSize
    \/ ReadBosToken
    \/ ReadBosTokenId
    \/ ReadEosToken
    \/ ReadEosTokenId
    \/ ReadUnkToken
    \/ ReadUnkTokenId
    \/ ReadPadToken
    \/ ReadPadTokenId
    \/ ReadSpecialTokens

Spec == Init /\ [][Next]_vars

-----------------------------------------------------------------------------
(* Nested lookups: the caller's one lookup is fixed at the start, a Vocab   *)
(* with the default special tokens is built, and the lookup is made.        *)

InitNested ==
    /\ phase = "unbuilt"
    /\ vocab_file = <<>>
    /\ _pad_token = Unset
    /\ _bos_token = Unset
    /\ _eos_token = Unset
    /\ _unk_token = Unset
    /\ _id_to_token_map_py = Unset
    /\ _token_to_id_map_py = Unset
    /\ call \in NestedCalls
    /\ op = "none"
    /\ arg = NoArg
    /\ ret = Return(None)

ConstructDefault ==
    \E lines \in NestedFiles : Vocab__init__(lines, PAD, BOS, EOS, UNK)

CallMapTokensToIds ==
    /\ call.fn = "map_tokens_to_ids_py"
    /\ LET r == map_tokens_to_ids_py(call.input)
       IN  Ran("map_tokens_to_ids_py", call.input, r.value, r.dict)
    /\ call' = NoCall

CallMapIdsToTokens ==
    /\ call.fn = "map_ids_to_tokens_py"
    /\ Ran("map_ids_to_tokens_py", call.input, map_ids_to_tokens_py(call.input),
           _token_to_id_map_py)
    /\ call' = NoCall

NextNested ==
    \/ ConstructDefault
    \/ CallMapTokensToIds
    \/ CallMapIdsToTokens

SpecNested == InitNested /\ [][NextNested]_vars

-----------------------------------------------------------------------------
(* What the properties below speak of. *)

\* The stripped lines of the file the Vocab was built from, in file order.
Lines == read_vocab(vocab_file)

\* [pad, bos, eos, unk] followed by the stripped lines: index i + 1 holds id i.
Combined == <<_pad_token, _bos_token, _eos_token, _unk_token>> \o Lines

\* The 1-based position of the last occurrence of x in seq.
LastPos(seq, x) ==
    CHOOSE k \in 1..Len(seq) : seq[k] = x /\ \A j \in (k + 1)..Len(seq) : seq[j] # x

IsSpecial(token) ==
    token \in {_pad_token, _bos_token, _eos_token, _unk_token}

SomeSpecialInLines ==
    \/ In(_pad_token, Lines)
    \/ In(_bos_token, Lines)
    \/ In(_eos_token, Lines)
    \/ In(_unk_token, Lines)

RepeatedLines == \E i, j \in 1..Len(Lines) : i < j /\ Lines[i] = Lines[j]

DistinctSpecials ==
    Cardinality({_pad_token, _bos_token, _eos_token, _unk_token}) = 4

tokens_to_ids(token) == map_tokens_to_ids_py(Leaf(token)).value.leaf
ids_to_tokens(id) == map_ids_to_tokens_py(Leaf(id)).leaf

\* A tree with its leaves blanked: its nesting depth and sibling counts.
RECURSIVE Shape(_)
Shape(t) ==
    IF IsLeaf(t)
    THEN Leaf("x")
    ELSE List([i \in 1..Len(t.items) |-> Shape(t.items[i])])

\* The leaves of a tree, left to right.
RECURSIVE LeavesOf(_), LeavesOfItems(_)
LeavesOf(t) == IF IsLeaf(t) THEN <<t.leaf>> ELSE LeavesOfItems(t.items)

LeavesOfItems(s) ==
    IF Len(s) = 0 THEN <<>> ELSE LeavesOf(Head(s)) \o LeavesOfItems(Tail(s))

-----------------------------------------------------------------------------
(* The properties. *)

\* C1, as stated, on the tables whose four special tokens are pairwise
\* distinct: every token t of the table has ids_to_tokens(tokens_to_ids(t)) = t
\* and every id i with 0 <= i < size has tokens_to_ids(ids_to_tokens(i)) = i,
\* the file's lines repeated or not.
C1_RoundTripBijection ==
    phase = "built" /\ DistinctSpecials =>
        /\ \A t \in DOMAIN _token_to_id_map_py.entries :
               ids_to_tokens(tokens_to_ids(t)) = t
        /\ \A i \in 0..(size - 1) : tokens_to_ids(ids_to_tokens(i)) = i

\* C1, amended: in every built table, every token t of the table has
\* ids_to_tokens(tokens_to_ids(t)) = t, and every id i with
\* 0 <= i < 4 + number of lines has tokens_to_ids(ids_to_tokens(i)) equal to
\* the id of the last occurrence, in [pad, bos, eos, unk] + lines, of the
\* string at position i: it is i exactly when that string does not occur
\* again later.
C1_RoundTripLastOccurrence ==
    phase = "built" =>
        /\ \A t \in DOMAIN _token_to_id_map_py.entries :
               ids_to_tokens(tokens_to_ids(t)) = t
        /\ \A i \in 0..(Len(Combined) - 1) :
               /\ tokens_to_ids(ids_to_tokens(i))
                      = LastPos(Combined, Combined[i + 1]) - 1
               /\ (tokens_to_ids(ids_to_tokens(i)) = i)
                      <=> (\A j \in (i + 2)..Len(Combined) :
                               Combined[j] # Combined[i + 1])

\* A table built from a file whose first two lines are the same token, asked for
\* the token of id 4: the id whose round trip comes back as 5.
C1_Witness ==
    /\ phase = "built"
    /\ Len(Lines) >= 2
    /\ Lines[1] = Lines[2]
    /\ op = "map_ids_to_tokens_py"
    /\ arg = Leaf(4)
    /\ ret = Return(Leaf(Lines[1]))
    /\ tokens_to_ids(Lines[1]) = 5

\* C2, as stated: in every built table pad_token_id is 0, bos_token_id is 1,
\* eos_token_id is 2 and unk_token_id is 3, whatever the file and whatever the
\* four special tokens configured.
C2_FixedSpecialIds ==
    phase = "built" =>
        /\ op = "pad_token_id" => ret = Return(0)
        /\ op = "bos_token_id" => ret = Return(1)
        /\ op = "eos_token_id" => ret = Return(2)
        /\ op = "unk_token_id" => ret = Return(3)

\* C3: construction raises and assigns neither map whenever one of the four
\* special tokens, any one of them, is a stripped line of the file.
C3_DuplicateSpecialRejected ==
    phase # "unbuilt" /\ SomeSpecialInLines =>
        /\ phase = "failed"
        /\ "raised" \in DOMAIN ret
        /\ _id_to_token_map_py = Unset
        /\ _token_to_id_map_py = Unset

\* A construction that failed on the padding token alone.
C3_Witness ==
    /\ phase = "failed"
    /\ In(_pad_token, Lines)
    /\ ~In(_bos_token, Lines)
    /\ ~In(_eos_token, Lines)
    /\ ~In(_unk_token, Lines)
    /\ "raised" \in DOMAIN ret

\* C4: looking up a string that is neither a stripped line of the file nor a
\* special token returns unk_token_id.
C4_UnknownTokenFallback ==
    ( /\ phase = "built"
      /\ op = "map_tokens_to_ids_py"
      /\ IsLeaf(arg)
      /\ ~In(arg.leaf, Lines)
      /\ ~IsSpecial(arg.leaf) )
        => ret = Return(Leaf(unk_token_id.value))

\* The token "z", which no file holds, looked up in a table with loaded lines.
C4_Witness ==
    /\ phase = "built"
    /\ Len(Lines) > 0
    /\ op = "map_tokens_to_ids_py"
    /\ arg = Leaf(<<"z">>)
    /\ ret = Return(Leaf(3))

C6_ReadOnlyAfterConstruction ==
    [][phase = "built" =>
          /\ _id_to_token_map_py' = _id_to_token_map_py
          /\ _token_to_id_map_py' = _token_to_id_map_py
          /\ size' = size]_vars

\* A lookup of a token the table does not hold has run.
C6_Witness ==
    /\ phase = "built"
    /\ op = "map_tokens_to_ids_py"
    /\ arg = Leaf(<<"z">>)
    /\ <<"z">> \notin DOMAIN _token_to_id_map_py.entries
    /\ ret = Return(Leaf(3))
    /\ size = Cardinality({Combined[i] : i \in 1..Len(Combined)})

\* C7, as stated: size is 4 plus the number of distinct stripped lines.
C7_SizeAccounting ==
    phase = "built" /\ op = "size" =>
        ret = Return(4 + Cardinality({Lines[i] : i \in 1..Len(Lines)}))

\* C8: a loaded line w has id 4 + k, k the 0-based position of the last
\* occurrence of w in the file, and id 4 + j is the line at position j.
C8_IdAssignmentOrder ==
    phase = "built" =>
        /\ ( /\ op = "map_tokens_to_ids_py"
             /\ IsLeaf(arg)
             /\ In(arg.leaf, Lines) )
               => ret = Return(Leaf(4 + (LastPos(Lines, arg.leaf) - 1)))
        /\ ( /\ op = "map_ids_to_tokens_py"
             /\ IsLeaf(arg)
             /\ arg.leaf \in 4..(4 + Len(Lines) - 1) )
               => ret = Return(Leaf(Lines[arg.leaf - 4 + 1]))

\* A token that is both lines of the file, looked up: the later line's id.
C8_Witness ==
    /\ phase = "built"
    /\ Len(Lines) = 2
    /\ Lines[1] = Lines[2]
    /\ op = "map_tokens_to_ids_py"
    /\ arg = Leaf(Lines[2])
    /\ ret = Return(Leaf(5))

\* C9: a lookup returns a tree of the same nesting depth and sibling counts
\* as its argument, each leaf the id of the argument's leaf (the unknown id
\* when the table does not hold it), or the token of it (the unknown token).
C9_ShapePreserved ==
    phase = "built" =>
        /\ op = "map_tokens_to_ids_py" =>
               /\ Shape(ret.value) = Shape(arg)
               /\ \A i \in 1..Len(LeavesOf(arg)) :
                      LeavesOf(ret.value)[i] =
                          IF In(LeavesOf(arg)[i], Combined)
                          THEN LastPos(Combined, LeavesOf(arg)[i]) - 1
                          ELSE unk_token_id.value
        /\ op = "map_ids_to_tokens_py" =>
               /\ Shape(ret.value) = Shape(arg)
               /\ \A i \in 1..Len(LeavesOf(arg)) :
                      LeavesOf(ret.value)[i] =
                          IF LeavesOf(arg)[i] \in 0..(Len(Combined) - 1)
                          THEN Combined[LeavesOf(arg)[i] + 1]
                          ELSE unk_token

\* [[a, z], [a]] looked up in the table of the file with the one line a.
C9_Witness ==
    /\ phase = "built"
    /\ Lines = << <<"a">> >>
    /\ op = "map_tokens_to_ids_py"
    /\ arg = List(<< List(<<Leaf(<<"a">>), Leaf(<<"z">>)>>),
                     List(<<Leaf(<<"a">>)>>) >>)
    /\ ret = Return(List(<< List(<<Leaf(4), Leaf(3)>>), List(<<Leaf(4)>>) >>))

\* C10: in every built table the fallback the token-to-id map was built with,
\* 3, is what unk_token_id reads, and the token of that id is unk_token.
C10_UnknownSentinelAgrees ==
    phase = "built" =>
        /\ _token_to_id_map_py.default = unk_token_idx
        /\ unk_token_id.value = _token_to_id_map_py.default
        /\ op = "unk_token_id" => ret = Return(unk_token_idx)
        /\ ids_to_tokens(unk_token_id.value) = unk_token

\* unk_token_id read in a table whose padding and unknown tokens are one string.
C10_Witness ==
    /\ phase = "built"
    /\ _pad_token = _unk_token
    /\ Len(Lines) > 0
    /\ op = "unk_token_id"
    /\ ret = Return(3)

====
